---- MODULE Spec2Model ----
\* Verification model of the Near-Earth-Objects explorer:
\*   filters.py  (AttributeFilter family, create_filters, limit)
\*   models.py   (NearEarthObject, CloseApproach)
\*   extract.py  (load_neos, load_approaches)
\*   write.py    (write_to_csv)
\* Each component has its own specification (SpecLimit, SpecFilter, ...);
\* the variables of the other components stay at their idle values.
EXTENDS Integers, Sequences, FiniteSets

\* ---------------------------------------------------------------------
\* Python values
\* ---------------------------------------------------------------------
\* A value carries its Python type t, a number v and a text s (a sequence of
\* characters).  Floats are scaled to integers; a float is a number, the
\* not-a-number marker or an infinity (v is its sign); a bool is 0 or 1.
NoneV == [t |-> "NoneType", v |-> 0, s |-> <<>>]
IntV(x) == [t |-> "int", v |-> x, s |-> <<>>]
FloatV(x) == [t |-> "float", v |-> x, s |-> <<>>]
NaN == [t |-> "nan", v |-> 0, s |-> <<>>]
Inf(sign) == [t |-> "inf", v |-> sign, s |-> <<>>]
DateV(d) == [t |-> "date", v |-> d, s |-> <<>>]
BoolV(b) == [t |-> "bool", v |-> IF b THEN 1 ELSE 0, s |-> <<>>]
StrV(chars) == [t |-> "str", v |-> 0, s |-> chars]

IsFloat(x) == x.t \in {"float", "nan", "inf"}

\* Date-times are minutes since the epoch; dates are days since the epoch.
MinutesPerDay == 24 * 60

\* datetime.date()
date(time) == time \div MinutesPerDay

\* Values of one type compare with each other; floats of every kind do.
Comparable(x, y) == x.t = y.t \/ (IsFloat(x) /\ IsFloat(y))

\* Position of a number among the infinities: -1, 0 (finite) or 1.
Level(x) == IF x.t = "inf" THEN x.v ELSE 0

\* operator.eq, operator.ge, operator.le; every comparison with NaN is False.
eq(x, y) ==
    /\ x.t # "nan" /\ y.t # "nan"
    /\ Comparable(x, y)
    /\ x = y

\* A comparison that orders the not-a-number marker like the number 0.
ge_NaNAsZero(x, y) ==
    /\ Comparable(x, y)
    /\ \/ Level(x) > Level(y)
       \/ Level(x) = Level(y) /\ (Level(x) # 0 \/ x.v >= y.v)

ge(x, y) ==
    /\ x.t # "nan" /\ y.t # "nan"
    /\ Comparable(x, y)
    /\ \/ Level(x) > Level(y)
       \/ Level(x) = Level(y) /\ (Level(x) # 0 \/ x.v >= y.v)

le(x, y) == ge(y, x)

Apply(op, x, y) ==
    CASE op = "eq" -> eq(x, y)
      [] op = "ge" -> ge(x, y)
      [] op = "le" -> le(x, y)

\* A result that is not there yet, as opposed to one that is.
Nothing == <<>>
Just(x) == <<x>>

\* ---------------------------------------------------------------------
\* Bounds
\* ---------------------------------------------------------------------
MaxLen == 3          \* longest source sequence handed to limit
MaxN == 3            \* largest cap handed to limit
MaxCriteria == 2     \* most criteria specified in one create_filters call
MaxText == 2         \* longest text given as a name or a number
MaxRows == 2         \* most rows in a data file
MaxApproaches == 3   \* most close approaches in a database
MaxResults == 2      \* most close approaches in a stream of results

\* ---------------------------------------------------------------------
\* State
\* ---------------------------------------------------------------------
VARIABLES
    lim_src,        \* limit: the items the source iterator will produce
    lim_n,          \* limit: the argument n (None or an integer)
    lim_pc,         \* limit: generator position: "created", "yielded", "done"
    lim_count,      \* limit: the local variable count
    lim_pulled,     \* limit: number of items taken from the source iterator
    lim_out,        \* limit: items yielded to the consumer so far
    lim_requests,   \* limit: number of next() calls made by the consumer
    flt_args,       \* create_filters: the ten keyword arguments of the call
    flt_filters,    \* create_filters: the returned list of filters, once returned
    flt_called,     \* the filter call made: the filter's index and the approach
    flt_verdict,    \* the boolean the last filter call returned
    neo_info,       \* NearEarthObject(**info): the keyword arguments
    neo_result,     \* NearEarthObject(**info): the object built or the error
    ca_info,        \* CloseApproach(**info): the keyword arguments
    ca_result,      \* CloseApproach(**info): the object built or the error
    ld_kind,        \* loader running: "neos" (load_neos) or "approaches"
    ld_file,        \* loader: the file at the path given
    ld_pc,          \* loader position: "called", "rows", "returned"
    ld_pos,         \* loader: number of rows processed
    ld_list,        \* loader: neo_list / aproach_list
    ld_error,       \* loader: the exception the except clause caught, if any
    ld_printed,     \* loader: whether the diagnostic was printed
    ld_result,      \* loader: the value returned
    db_pc,          \* database: "loaded", "built" or "raised" (constructor failed)
    db_neos,        \* database: the NEOs, each with its approaches
    db_approaches,  \* database: the close approaches, each with its neo
    db_error,       \* database: the exception the constructor raised, if any
    qry_pc,         \* query generator: "idle", "created", "yielded", "done"
    qry_filters,    \* query: the filters passed
    qry_pos,        \* query: number of approaches scanned
    qry_out,        \* query: the approaches yielded so far
    wr_data,        \* write_to_csv: the stream of results (approaches with NEO)
    wr_pc,          \* write_to_csv position: "called", "rows", "closed"
    wr_pos,         \* write_to_csv: number of approaches written
    wr_rows         \* write_to_csv: the rows of the file, header first

limVars == <<lim_src, lim_n, lim_pc, lim_count, lim_pulled, lim_out, lim_requests>>
fltVars == <<flt_args, flt_filters, flt_called, flt_verdict>>

mdlVars == <<neo_info, neo_result, ca_info, ca_result>>

ldVars == <<ld_kind, ld_file, ld_pc, ld_pos, ld_list, ld_error, ld_printed, ld_result>>

dbVars == <<db_pc, db_neos, db_approaches, db_error, qry_pc, qry_filters, qry_pos, qry_out>>

wrVars == <<wr_data, wr_pc, wr_pos, wr_rows>>

vars == <<limVars, fltVars, mdlVars, ldVars, dbVars, wrVars>>

\* What each component leaves alone.
exceptLim == <<fltVars, mdlVars, ldVars, dbVars, wrVars>>
exceptFlt == <<limVars, mdlVars, ldVars, dbVars, wrVars>>
exceptMdl == <<limVars, fltVars, ldVars, dbVars, wrVars>>
exceptLd == <<limVars, fltVars, mdlVars, dbVars, wrVars>>
exceptDb == <<limVars, fltVars, mdlVars, ldVars, wrVars>>
exceptWr == <<limVars, fltVars, mdlVars, ldVars, dbVars>>

\* ---------------------------------------------------------------------
\* filters.py: limit
\* ---------------------------------------------------------------------
Items == {"a", "b"}

SeqsUpTo(S, k) == UNION {[1..m -> S] : m \in 0..k}

LimitArgs == {NoneV} \cup {IntV(k) : k \in -1..MaxN}

\* `n is None or n == 0`
Unlimited(n) == n = NoneV \/ n.v = 0

\* The loop test that ends the capped stream.
CapReachedOffByOne(count, n) == count > n

CapReached(count, n) == count >= n

\* One resumption of the generator body of limit(iterator, n): the consumer
\* calls next() and the body runs to its next yield or to its end.
\* g is the generator's frame; the result is the frame afterwards.
limit(g) ==
    IF Unlimited(g.n)
    THEN \* yield from iterator
         IF g.pulled < Len(g.src)
         THEN [g EXCEPT !.pulled = @ + 1,
                        !.out = Append(@, g.src[g.pulled + 1]),
                        !.pc = "yielded"]
         ELSE [g EXCEPT !.pc = "done"]
    ELSE LET c == IF g.pc = "created" THEN 0 ELSE g.count + 1
         IN  \* `for item in iterator` asks the source for its next item first
             IF g.pulled < Len(g.src)
             THEN IF CapReached(c, g.n.v)
                  THEN [g EXCEPT !.count = c, !.pulled = @ + 1, !.pc = "done"]
                  ELSE [g EXCEPT !.count = c, !.pulled = @ + 1,
                                 !.out = Append(@, g.src[g.pulled + 1]),
                                 !.pc = "yielded"]
             ELSE [g EXCEPT !.count = c, !.pc = "done"]

LimitFrame == [src |-> lim_src, n |-> lim_n, pc |-> lim_pc, count |-> lim_count,
               pulled |-> lim_pulled, out |-> lim_out]

LimitInit ==
    /\ lim_src \in SeqsUpTo(Items, MaxLen)
    /\ lim_n \in LimitArgs
    /\ lim_pc = "created"
    /\ lim_count = 0
    /\ lim_pulled = 0
    /\ lim_out = <<>>
    /\ lim_requests = 0

\* The consumer requests the next item of the limited stream.
LimitNext ==
    /\ lim_pc # "done"
    /\ LET g == limit(LimitFrame)
       IN /\ lim_pc' = g.pc
          /\ lim_count' = g.count
          /\ lim_pulled' = g.pulled
          /\ lim_out' = g.out
    /\ lim_requests' = lim_requests + 1
    /\ UNCHANGED <<lim_src, lim_n>>
    /\ UNCHANGED exceptLim

LimitIdle ==
    /\ lim_src = <<>>
    /\ lim_n = NoneV
    /\ lim_pc = "done"
    /\ lim_count = 0
    /\ lim_pulled = 0
    /\ lim_out = <<>>
    /\ lim_requests = 0

Take(s, k) == SubSeq(s, 1, IF k < Len(s) THEN k ELSE Len(s))

\* C1: once the limited stream is exhausted, a positive n has yielded exactly
\* the first min(n, len(s)) items of s in order, and None or 0 has yielded
\* every item of s in order; before that the output is a prefix of that result.
C1_LimitYieldsPrefix ==
    LET expected == IF lim_n = NoneV \/ lim_n.v = 0 THEN lim_src
                    ELSE Take(lim_src, lim_n.v)
    IN  (lim_n = NoneV \/ lim_n.v >= 0) =>
            /\ Len(lim_out) <= Len(expected)
            /\ lim_out = SubSeq(expected, 1, Len(lim_out))
            /\ (lim_pc = "done" => lim_out = expected)

C1_Witness ==
    /\ lim_pc = "done"
    /\ lim_n = IntV(2)
    /\ Len(lim_src) = 3
    /\ lim_out = SubSeq(lim_src, 1, 2)
    /\ lim_src[1] # lim_src[2]

\* C2: with a positive n the number of items taken from the source never
\* exceeds n, and never exceeds the number of items the consumer requested.
C2_PullsAtMostN ==
    (lim_n # NoneV /\ lim_n.v > 0) =>
        /\ lim_pulled <= lim_n.v
        /\ lim_pulled <= lim_requests

\* ---------------------------------------------------------------------
\* filters.py: the AttributeFilter family
\* ---------------------------------------------------------------------
DateFilter_getRounded(approach) == DateV(date(approach.time + MinutesPerDay \div 2))

DateFilter_get(approach) == DateV(date(approach.time))

DistFilter_get(approach) == approach.distance

VeloFilter_get(approach) == approach.velocity

DiamFilter_get(approach) == approach.neo.diameter

HazFilter_get(approach) == approach.neo.hazardous

\* self.get(approach), dispatched on the filter's class
get(cls, approach) ==
    CASE cls = "DateFilter" -> DateFilter_get(approach)
      [] cls = "DistFilter" -> DistFilter_get(approach)
      [] cls = "VeloFilter" -> VeloFilter_get(approach)
      [] cls = "DiamFilter" -> DiamFilter_get(approach)
      [] cls = "HazFilter" -> HazFilter_get(approach)

\* AttributeFilter.__init__
AttributeFilter(cls, op, value) == [cls |-> cls, op |-> op, value |-> value]

AttributeFilter_callSwapped(f, approach) == Apply(f.op, f.value, get(f.cls, approach))

\* AttributeFilter.__call__
AttributeFilter_call(f, approach) == Apply(f.op, get(f.cls, approach), f.value)

\* ---------------------------------------------------------------------
\* filters.py: create_filters
\* ---------------------------------------------------------------------
\* The keys of filter_mappings in insertion order.
KeyOrder == <<"date", "start_date", "end_date", "distance_min", "distance_max",
              "velocity_min", "velocity_max", "diameter_min", "diameter_max",
              "hazardous">>

Keys == {KeyOrder[i] : i \in 1..Len(KeyOrder)}

filter_mappings_EndDateGe ==
    [date |-> <<"DateFilter", "eq">>,
     start_date |-> <<"DateFilter", "ge">>,
     end_date |-> <<"DateFilter", "ge">>,
     distance_min |-> <<"DistFilter", "ge">>,
     distance_max |-> <<"DistFilter", "le">>,
     velocity_min |-> <<"VeloFilter", "ge">>,
     velocity_max |-> <<"VeloFilter", "le">>,
     diameter_min |-> <<"DiamFilter", "ge">>,
     diameter_max |-> <<"DiamFilter", "le">>,
     hazardous |-> <<"HazFilter", "eq">>]

filter_mappings ==
    [date |-> <<"DateFilter", "eq">>,
     start_date |-> <<"DateFilter", "ge">>,
     end_date |-> <<"DateFilter", "le">>,
     distance_min |-> <<"DistFilter", "ge">>,
     distance_max |-> <<"DistFilter", "le">>,
     velocity_min |-> <<"VeloFilter", "ge">>,
     velocity_max |-> <<"VeloFilter", "le">>,
     diameter_min |-> <<"DiamFilter", "ge">>,
     diameter_max |-> <<"DiamFilter", "le">>,
     hazardous |-> <<"HazFilter", "eq">>]

\* Python truthiness of an optional argument value.
Truthy(value) ==
    /\ value # NoneV
    /\ value.t \in {"bool", "float"} => value.v # 0

\* `value is not None`
IsSpecified(value) == value # NoneV

\* The loop over filter_mappings.items(): one filter appended per key whose
\* value passes the test, in key order.
create_filters(args) ==
    LET specified == SelectSeq(KeyOrder, LAMBDA k : IsSpecified(args[k]))
    IN  [i \in 1..Len(specified) |->
            AttributeFilter(filter_mappings[specified[i]][1],
                            filter_mappings[specified[i]][2],
                            args[specified[i]])]

\* ---------------------------------------------------------------------
\* Inputs of the filter specification
\* ---------------------------------------------------------------------
Days == {1, 2}
MinutesOfDay == {0, 13 * 60 + 45, MinutesPerDay - 1}
Times == {d * MinutesPerDay + m : d \in Days, m \in MinutesOfDay}
Floats == {FloatV(0), FloatV(1)}
Diameters == Floats \cup {NaN}

\* A linked NEO as an approach sees it.
NEOs == [designation : {StrV(<<"4", "3", "3">>)}, name : {NoneV}, diameter : Diameters,
         hazardous : {BoolV(TRUE), BoolV(FALSE)}, approaches : {<<>>}]

\* Linked close approaches.
Approaches == [designation : {StrV(<<"4", "3", "3">>)}, time : Times, distance : Floats,
               velocity : Floats, neo : NEOs]

\* The values a command line can give to a criterion.
ArgValues(k) ==
    IF k \in {"date", "start_date", "end_date"} THEN {DateV(d) : d \in Days}
    ELSE IF k = "hazardous" THEN {BoolV(TRUE), BoolV(FALSE)}
    ELSE Floats

NoArgs == [k \in Keys |-> NoneV]

\* Keyword arguments with at most MaxCriteria criteria specified, all of
\* them among the criteria K.
ArgSetsOver(K) ==
    UNION {{[k \in Keys |-> IF k \in S THEN c[k] ELSE NoneV] :
                c \in [S -> UNION {ArgValues(k) : k \in S}]} :
            S \in {T \in SUBSET K : Cardinality(T) <= MaxCriteria}}

ArgSets == ArgSetsOver(Keys)

WellTyped(args) == \A k \in Keys : args[k] # NoneV => args[k] \in ArgValues(k)

FilterInit ==
    /\ flt_args = NoArgs
    /\ flt_filters = Nothing
    /\ flt_called = Nothing
    /\ flt_verdict = FALSE

FilterIdle == FilterInit

\* filters = create_filters(**args), the arguments drawn from argsets
CreateFiltersFrom(argsets) ==
    /\ flt_filters = Nothing
    /\ \E args \in argsets :
        /\ WellTyped(args)
        /\ flt_args' = args
        /\ flt_filters' = Just(create_filters(args))
    /\ UNCHANGED <<flt_called, flt_verdict>>
    /\ UNCHANGED exceptFlt

CreateFilters == CreateFiltersFrom(ArgSets)

\* verdict = filters[i](approach).  A call reads the filter and the approach
\* and changes neither, so one call per behaviour reaches every outcome.
CallFilter ==
    /\ flt_filters # Nothing
    /\ flt_called = Nothing
    /\ \E i \in 1..Len(flt_filters[1]), a \in Approaches :
        /\ flt_called' = Just([index |-> i, approach |-> a])
        /\ flt_verdict' = AttributeFilter_call(flt_filters[1][i], a)
    /\ UNCHANGED <<flt_args, flt_filters>>
    /\ UNCHANGED exceptFlt

\* C3: create_filters returns exactly one filter per criterion whose argument
\* is not None, carrying that argument as its reference value, and none for a
\* criterion that is None; falsy values count as specified.
C3_OneFilterPerSpecified ==
    flt_filters # Nothing =>
        LET fs == flt_filters[1]
            built(k) == {i \in 1..Len(fs) :
                            <<fs[i].cls, fs[i].op>> = filter_mappings[k]}
        IN  /\ Len(fs) = Cardinality({k \in Keys : flt_args[k] # NoneV})
            /\ \A k \in Keys :
                 IF flt_args[k] = NoneV THEN built(k) = {}
                 ELSE /\ Cardinality(built(k)) = 1
                      /\ \A i \in built(k) : fs[i].value = flt_args[k]

C3_Witness ==
    /\ flt_filters # Nothing
    /\ flt_args["hazardous"] = BoolV(FALSE)
    /\ flt_args["distance_min"] = FloatV(0)
    /\ Len(flt_filters[1]) = 2

\* The criterion whose filter sits at position i of the returned list.
CriterionAt(i) == SelectSeq(KeyOrder, LAMBDA k : flt_args[k] # NoneV)[i]

\* The table of criteria: which attribute each one reads and how it compares.
C4_Extract(k, a) ==
    CASE k \in {"date", "start_date", "end_date"} -> DateV(a.time \div MinutesPerDay)
      [] k \in {"distance_min", "distance_max"} -> a.distance
      [] k \in {"velocity_min", "velocity_max"} -> a.velocity
      [] k \in {"diameter_min", "diameter_max"} -> a.neo.diameter
      [] k = "hazardous" -> a.neo.hazardous

C4_Holds(k, x, v) ==
    /\ x.t # "nan"
    /\ CASE k \in {"date", "hazardous"} -> x.v = v.v
         [] k \in {"start_date", "distance_min", "velocity_min", "diameter_min"} -> x.v >= v.v
         [] k \in {"end_date", "distance_max", "velocity_max", "diameter_max"} -> x.v <= v.v

\* C4: the filter built for a criterion with reference value v accepts an
\* approach a iff extract(a) OP v, with the operator and the extraction rule
\* the table gives for that criterion.
C4_FilterIsExtractOpValue ==
    flt_called # Nothing =>
        LET k == CriterionAt(flt_called[1].index)
        IN  flt_verdict = C4_Holds(k, C4_Extract(k, flt_called[1].approach),
                                   flt_args[k])

C4_Witness ==
    /\ flt_called # Nothing
    /\ CriterionAt(flt_called[1].index) = "diameter_max"
    /\ flt_called[1].approach.neo.diameter = FloatV(0)
    /\ flt_args["diameter_max"] = FloatV(1)
    /\ flt_verdict

\* C5: a date=D filter accepts exactly the approaches between the first and
\* the last minute of day D, start_date=D those from the first minute of D
\* on, end_date=D those up to the last minute of D.
C5_DateGranularity ==
    flt_called # Nothing =>
        LET k == CriterionAt(flt_called[1].index)
            t == flt_called[1].approach.time
            first == flt_args[k].v * MinutesPerDay
            last == first + MinutesPerDay - 1
        IN  /\ k = "date" => (flt_verdict <=> (first <= t /\ t <= last))
            /\ k = "start_date" => (flt_verdict <=> first <= t)
            /\ k = "end_date" => (flt_verdict <=> t <= last)

C5_Witness ==
    /\ flt_called # Nothing
    /\ CriterionAt(flt_called[1].index) = "end_date"
    /\ flt_args["end_date"] = DateV(1)
    /\ flt_called[1].approach.time = 1 * MinutesPerDay + MinutesPerDay - 1
    /\ flt_verdict

\* ---------------------------------------------------------------------
\* Built-in float() and helpers.cd_to_datetime
\* ---------------------------------------------------------------------
\* The outcome of a call: the value returned, or the exception raised.
Ok(x) == [exc |-> "", val |-> x]
Raise(e) == [exc |-> e, val |-> NoneV]

Digits == <<"0", "1", "2", "3", "4", "5", "6", "7", "8", "9">>
IsDigit(c) == \E i \in 1..Len(Digits) : Digits[i] = c
DigitVal(c) == (CHOOSE i \in 1..Len(Digits) : Digits[i] = c) - 1

RECURSIVE DecVal(_)
DecVal(chars) ==
    IF chars = <<>> THEN 0
    ELSE 10 * DecVal(SubSeq(chars, 1, Len(chars) - 1)) + DigitVal(chars[Len(chars)])

RECURSIVE Strip(_)
Strip(chars) ==
    IF chars = <<>> THEN chars
    ELSE IF Head(chars) = " " THEN Strip(Tail(chars))
    ELSE IF chars[Len(chars)] = " " THEN Strip(SubSeq(chars, 1, Len(chars) - 1))
    ELSE chars

\* float(text): surrounding blanks, an optional sign, then decimal digits,
\* "nan" or "inf"; anything else is a ValueError.
ParseFloat(chars) ==
    LET body == Strip(chars)
        signed == body # <<>> /\ Head(body) \in {"-", "+"}
        sign == IF signed /\ Head(body) = "-" THEN -1 ELSE 1
        rest == IF signed THEN Tail(body) ELSE body
    IN  IF rest # <<>> /\ \A i \in 1..Len(rest) : IsDigit(rest[i])
        THEN Ok(FloatV(sign * DecVal(rest)))
        ELSE IF rest = <<"n", "a", "n">> THEN Ok(NaN)
        ELSE IF rest = <<"i", "n", "f">> THEN Ok(Inf(sign))
        ELSE Raise("ValueError")

\* float(value)
float(value) ==
    CASE IsFloat(value) -> Ok(value)
      [] value.t \in {"int", "bool"} -> Ok(FloatV(value.v))
      [] value.t = "str" -> ParseFloat(value.s)
      [] OTHER -> Raise("TypeError")

\* A date-time text 'YYYY-Mon-DD HH:MM', held as the fields it spells.
\* cd_to_datetime parses it; a field out of range is a ValueError.
cd_to_datetime(text) ==
    IF text = NoneV THEN Raise("TypeError")
    ELSE IF text.day >= 1 /\ text.hour \in 0..23 /\ text.minute \in 0..59
    THEN Ok(text.day * MinutesPerDay + text.hour * 60 + text.minute)
    ELSE Raise("ValueError")

\* ---------------------------------------------------------------------
\* models.py: NearEarthObject and CloseApproach
\* ---------------------------------------------------------------------
\* NearEarthObject.isDigitorNone: only ValueError is caught.
isDigitorNone(value) ==
    LET r == float(value)
    IN  IF r.exc = "ValueError" THEN Ok(NaN) ELSE r

\* NearEarthObject.__init__; info holds NoneV for a keyword not supplied.
NearEarthObject(info) ==
    LET diameter == isDigitorNone(info.diameter)
    IN  IF diameter.exc # "" THEN Raise(diameter.exc)
        ELSE Ok([name |-> IF info.name \in {StrV(<<" ">>), StrV(<<>>)}
                          THEN NoneV ELSE info.name,
                 designation |-> info.designation,
                 diameter |-> diameter.val,
                 hazardous |-> info.hazardous,
                 approaches |-> <<>>])

\* Python truth of a value: None, an empty text and a zero are false.
truth(value) ==
    CASE value.t = "NoneType" -> FALSE
      [] value.t = "str" -> value.s # <<>>
      [] value.t \in {"bool", "int", "float"} -> value.v # 0
      [] OTHER -> TRUE

\* NearEarthObject.fullname
fullname(neo) ==
    IF truth(neo.name)
    THEN StrV(neo.designation.s \o <<" ", "(">> \o neo.name.s \o <<")">>)
    ELSE neo.designation

\* NearEarthObject.serialize
NearEarthObject_serialize(neo) ==
    [designation |-> IF truth(neo.designation) THEN neo.designation ELSE StrV(<<>>),
     name |-> IF truth(neo.name) THEN neo.name ELSE StrV(<<>>),
     diameter_km |-> IF neo.diameter # NoneV THEN neo.diameter ELSE NaN,
     potentially_hazardous |-> neo.hazardous]

\* CloseApproach.__init__
CloseApproach(info) ==
    LET time == cd_to_datetime(info.time)
        \* `if type(self.distance) is not float`
        distance == IF ~IsFloat(info.distance)
                    THEN float(info.distance) ELSE Ok(info.distance)
    IN  IF time.exc # "" THEN Raise(time.exc)
        ELSE IF distance.exc # "" THEN Raise(distance.exc)
        ELSE Ok([designation |-> info.designation,
                 time |-> time.val,
                 distance |-> distance.val,
                 velocity |-> info.velocity,
                 neo |-> info.neo])

\* ---------------------------------------------------------------------
\* Inputs of the construction specification
\* ---------------------------------------------------------------------
NumberChars == {"1", "-", " ", "x"}
NumberTexts == {StrV(c) : c \in SeqsUpTo(NumberChars, MaxText)}
                  \cup {StrV(<<"n", "a", "n">>), StrV(<<"i", "n", "f">>)}
RawNumbers == NumberTexts \cup {NoneV, FloatV(1)}

NameChars == {" ", "\t", "E"}
RawNames == {StrV(c) : c \in SeqsUpTo(NameChars, MaxText)} \cup {NoneV}

Designation433 == StrV(<<"4", "3", "3">>)

NEOInfos == [name : RawNames, designation : {Designation433},
             diameter : RawNumbers, hazardous : {NoneV, BoolV(TRUE), BoolV(FALSE)}]

TimeTexts == [day : {1}, hour : {13, 24}, minute : {45}]

ApproachInfos == [designation : {Designation433}, time : TimeTexts,
                  distance : RawNumbers, velocity : RawNumbers, neo : {NoneV}]

ModelsInit ==
    /\ neo_info = Nothing
    /\ neo_result = Nothing
    /\ ca_info = Nothing
    /\ ca_result = Nothing

ModelsIdle == ModelsInit

Constructed == neo_result # Nothing \/ ca_result # Nothing

\* neo = NearEarthObject(**info)
ConstructNEO ==
    /\ ~Constructed
    /\ \E info \in NEOInfos :
        /\ neo_info' = Just(info)
        /\ neo_result' = Just(NearEarthObject(info))
    /\ UNCHANGED <<ca_info, ca_result>>
    /\ UNCHANGED exceptMdl

\* approach = CloseApproach(**info)
ConstructCA ==
    /\ ~Constructed
    /\ \E info \in ApproachInfos :
        /\ ca_info' = Just(info)
        /\ ca_result' = Just(CloseApproach(info))
    /\ UNCHANGED <<neo_info, neo_result>>
    /\ UNCHANGED exceptMdl

\* C8: constructing a NearEarthObject never raises whatever the diameter
\* input is, and the diameter of the object is a finite non-negative float
\* or the not-a-number marker.
C8_DiameterNeverRaises ==
    neo_result # Nothing =>
        /\ neo_result[1].exc = ""
        /\ LET d == neo_result[1].val.diameter
           IN  d = NaN \/ (d.t = "float" /\ d.v >= 0)

\* C9: a CloseApproach is produced only with a float distance and a float
\* velocity; a distance or velocity that float() rejects makes the
\* construction fail.
C9_MalformedNumbersAreFatal ==
    ca_result # Nothing =>
        /\ (float(ca_info[1].distance).exc # "" \/ float(ca_info[1].velocity).exc # "")
              => ca_result[1].exc # ""
        /\ ca_result[1].exc = "" =>
              IsFloat(ca_result[1].val.distance) /\ IsFloat(ca_result[1].val.velocity)

\* A text that is empty or holds whitespace only.
Blank(value) ==
    value.t = "str" /\ \A i \in 1..Len(value.s) : value.s[i] \in {" ", "\t"}

\* C11: a NearEarthObject constructed from an empty or whitespace-only name
\* has no name: its name is None, its fullname is the bare designation and
\* its serialized name is the empty text.
C11_BlankNameIsNoName ==
    (neo_result # Nothing /\ neo_result[1].exc = "" /\ Blank(neo_info[1].name)) =>
        LET neo == neo_result[1].val
        IN  /\ neo.name = NoneV
            /\ fullname(neo) = neo.designation
            /\ NearEarthObject_serialize(neo).name = StrV(<<>>)

\* ---------------------------------------------------------------------
\* extract.py: load_neos and load_approaches
\* ---------------------------------------------------------------------
\* What a loader returns: a list, or None.
ListV(items) == [t |-> "list", items |-> items]
NoList == [t |-> "NoneType", items |-> <<>>]

\* `return neo_list if neo_list else None`
ReturnListOrNone(list) == IF list # <<>> THEN ListV(list) ELSE NoList

\* One row of the CSV file as csv.DictReader gives it; a field the row is
\* too short to hold is None.
NeoRows == [name : {StrV(<<>>), StrV(<<"E">>)}, pdes : {Designation433},
            diameter : {StrV(<<"1">>), StrV(<<>>), NoneV},
            pha : {StrV(<<"Y">>), StrV(<<"N">>)}]

\* One entry of the JSON file after dict(zip(fields, value)); null is None.
ApproachRows == [des : {Designation433}, cd : TimeTexts,
                 dist : {StrV(<<"1">>), StrV(<<"x">>)},
                 v_rel : {StrV(<<"1">>), NoneV}]

NeoFiles == [readable : BOOLEAN, wellformed : {TRUE},
             rows : SeqsUpTo(NeoRows, MaxRows)]

ApproachFiles == [readable : BOOLEAN, wellformed : BOOLEAN,
                  rows : SeqsUpTo(ApproachRows, MaxRows)]

\* The NearEarthObject(...) call of load_neos for one row.
NeoOfRow(row) ==
    NearEarthObject([name |-> IF row.name = StrV(<<>>) THEN NoneV ELSE row.name,
                     designation |-> row.pdes,
                     diameter |-> row.diameter,
                     hazardous |-> BoolV(row.pha = StrV(<<"Y">>))])

\* The CloseApproach(...) call of load_approaches for one entry; the two
\* float() calls are evaluated before the constructor runs.
ApproachOfRow(entry) ==
    LET distance == float(entry.dist)
        velocity == float(entry.v_rel)
    IN  IF distance.exc # "" THEN Raise(distance.exc)
        ELSE IF velocity.exc # "" THEN Raise(velocity.exc)
        ELSE CloseApproach([designation |-> entry.des, time |-> entry.cd,
                            distance |-> distance.val, velocity |-> velocity.val,
                            neo |-> NoneV])

LoadInit ==
    /\ ld_kind \in {"neos", "approaches"}
    /\ ld_file \in IF ld_kind = "neos" THEN NeoFiles ELSE ApproachFiles
    /\ ld_pc = "called"
    /\ ld_pos = 0
    /\ ld_list = <<>>
    /\ ld_error = ""
    /\ ld_printed = FALSE
    /\ ld_result = NoList

LoadIdle ==
    /\ ld_kind = "none"
    /\ ld_file = [readable |-> FALSE, wellformed |-> FALSE, rows |-> <<>>]
    /\ ld_pc = "returned"
    /\ ld_pos = 0
    /\ ld_list = <<>>
    /\ ld_error = ""
    /\ ld_printed = FALSE
    /\ ld_result = NoList

\* The except clause followed by the return statement.
Caught(e) ==
    /\ ld_error' = e
    /\ ld_printed' = TRUE
    /\ ld_result' = ReturnListOrNone(ld_list)
    /\ ld_pc' = "returned"
    /\ UNCHANGED <<ld_pos, ld_list>>

\* load_neos: open(neo_csv_path) and csv.DictReader(file)
LoadNeosOpen ==
    /\ ld_kind = "neos" /\ ld_pc = "called"
    /\ IF ld_file.readable
       THEN /\ ld_pc' = "rows"
            /\ UNCHANGED <<ld_pos, ld_list, ld_error, ld_printed, ld_result>>
       ELSE Caught("OSError")
    /\ UNCHANGED <<ld_kind, ld_file>>
    /\ UNCHANGED exceptLd

\* load_neos: one iteration of `for row in csv_line`
LoadNeosRow ==
    /\ ld_kind = "neos" /\ ld_pc = "rows" /\ ld_pos < Len(ld_file.rows)
    /\ LET r == NeoOfRow(ld_file.rows[ld_pos + 1])
       IN  IF r.exc = ""
           THEN /\ ld_list' = Append(ld_list, r.val)
                /\ ld_pos' = ld_pos + 1
                /\ UNCHANGED <<ld_pc, ld_error, ld_printed, ld_result>>
           ELSE Caught(r.exc)
    /\ UNCHANGED <<ld_kind, ld_file>>
    /\ UNCHANGED exceptLd

\* load_neos: the rows are exhausted; `return neo_list if neo_list else None`
LoadNeosReturn ==
    /\ ld_kind = "neos" /\ ld_pc = "rows" /\ ld_pos = Len(ld_file.rows)
    /\ ld_result' = ReturnListOrNone(ld_list)
    /\ ld_pc' = "returned"
    /\ UNCHANGED <<ld_kind, ld_file, ld_pos, ld_list, ld_error, ld_printed>>
    /\ UNCHANGED exceptLd

\* load_approaches: open(cad_json_path), json.load(file) and the list of
\* dict(zip(fields, value)) entries
LoadApproachesOpen ==
    /\ ld_kind = "approaches" /\ ld_pc = "called"
    /\ IF ~ld_file.readable THEN Caught("OSError")
       ELSE IF ~ld_file.wellformed THEN Caught("JSONDecodeError")
       ELSE /\ ld_pc' = "rows"
            /\ UNCHANGED <<ld_pos, ld_list, ld_error, ld_printed, ld_result>>
    /\ UNCHANGED <<ld_kind, ld_file>>
    /\ UNCHANGED exceptLd

\* load_approaches: one iteration of `for entry in entry_dict`
LoadApproachesRow ==
    /\ ld_kind = "approaches" /\ ld_pc = "rows" /\ ld_pos < Len(ld_file.rows)
    /\ LET r == ApproachOfRow(ld_file.rows[ld_pos + 1])
       IN  IF r.exc = ""
           THEN /\ ld_list' = Append(ld_list, r.val)
                /\ ld_pos' = ld_pos + 1
                /\ UNCHANGED <<ld_pc, ld_error, ld_printed, ld_result>>
           ELSE Caught(r.exc)
    /\ UNCHANGED <<ld_kind, ld_file>>
    /\ UNCHANGED exceptLd

\* load_approaches: `return aproach_list if aproach_list else None`
LoadApproachesReturn ==
    /\ ld_kind = "approaches" /\ ld_pc = "rows" /\ ld_pos = Len(ld_file.rows)
    /\ ld_result' = ReturnListOrNone(ld_list)
    /\ ld_pc' = "returned"
    /\ UNCHANGED <<ld_kind, ld_file, ld_pos, ld_list, ld_error, ld_printed>>
    /\ UNCHANGED exceptLd

\* C10: a load that met an error at any point has reported it and returns no
\* data (None or an empty list), never the records read before the error.
C10_ErrorYieldsNoData ==
    (ld_pc = "returned" /\ ld_error # "") =>
        /\ ld_printed
        /\ ld_result.items = <<>>

\* ---------------------------------------------------------------------
\* NEODatabase: association of approaches with NEOs, and query
\* ---------------------------------------------------------------------
\* A reference to an object is its position in the collection that holds it.
NeoRef(i) == [t |-> "NearEarthObject", v |-> i, s |-> <<>>]
ApproachRef(j) == [t |-> "CloseApproach", v |-> j, s |-> <<>>]

\* The placeholder for a designation no loaded NEO carries: a NearEarthObject
\* constructed from the designation alone.
Placeholder(designation) ==
    NearEarthObject([name |-> NoneV, designation |-> designation,
                     diameter |-> NoneV, hazardous |-> NoneV])

\* The linking pass from approach j on.  A designation is looked up among
\* the NEOs (the last one wins, as in a dict built in one pass); a
\* placeholder made on a miss joins the NEOs.  db.exc is the exception that
\* ended the pass, if any.
RECURSIVE Link(_, _)
Link(db, j) ==
    IF j > Len(db.approaches) THEN db
    ELSE LET a == db.approaches[j]
             hits == {i \in 1..Len(db.neos) : db.neos[i].designation = a.designation}
         IN  IF hits # {}
             THEN LET i == CHOOSE h \in hits : \A g \in hits : g <= h
                  IN  Link([db EXCEPT !.neos[i].approaches = Append(@, ApproachRef(j)),
                                      !.approaches[j].neo = NeoRef(i)], j + 1)
             ELSE LET made == Placeholder(a.designation)
                  IN  IF made.exc # "" THEN [db EXCEPT !.exc = made.exc]
                      ELSE Link([db EXCEPT
                                   !.neos = Append(@, [made.val EXCEPT
                                                !.approaches = <<ApproachRef(j)>>]),
                                   !.approaches[j].neo = NeoRef(Len(db.neos) + 1)],
                                j + 1)

\* NEODatabase.__init__(neos, approaches)
NEODatabase(neos, approaches) ==
    Link([neos |-> neos, approaches |-> approaches, exc |-> ""], 1)

\* The approach as a filter sees it: approach.neo is the NEO referred to.
Resolve(approach) == [approach EXCEPT !.neo = db_neos[approach.neo.v]]

\* all(f(approach) for f in filters)
Matches(filters, approach) ==
    \A i \in 1..Len(filters) : AttributeFilter_call(filters[i], approach)

\* ---------------------------------------------------------------------
\* Inputs of the database specification
\* ---------------------------------------------------------------------
Designation1036 == StrV(<<"1", "0", "3", "6">>)

\* The NEOs as load_neos constructs them: 433 is hazardous with a known
\* diameter, 1036 is not hazardous and its diameter is unknown.
Neo433 == NearEarthObject([name |-> StrV(<<"E">>), designation |-> Designation433,
                           diameter |-> StrV(<<"1">>), hazardous |-> BoolV(TRUE)]).val

Neo1036 == NearEarthObject([name |-> NoneV, designation |-> Designation1036,
                            diameter |-> StrV(<<>>), hazardous |-> BoolV(FALSE)]).val

\* Designations are unique among the loaded NEOs.
NeoLists == {<<>>, <<Neo433>>, <<Neo433, Neo1036>>}

\* The criteria queries are made with: every filter class and every operator.
QueryKeys == {"date", "distance_max", "velocity_max", "diameter_min",
              "diameter_max", "hazardous"}

\* The approaches as load_approaches constructs them.
LoadedApproaches ==
    {CloseApproach([designation |-> d,
                    time |-> [day |-> 1, hour |-> 13, minute |-> 45],
                    distance |-> FloatV(x), velocity |-> FloatV(1),
                    neo |-> NoneV]).val :
        d \in {Designation433, Designation1036}, x \in {0, 1}}

DatabaseInit ==
    /\ db_pc = "loaded"
    /\ db_neos \in NeoLists
    /\ db_approaches \in SeqsUpTo(LoadedApproaches, MaxApproaches)
    /\ db_error = ""
    /\ qry_pc = "idle"
    /\ qry_filters = <<>>
    /\ qry_pos = 0
    /\ qry_out = <<>>

DatabaseIdle ==
    /\ db_pc = "none"
    /\ db_neos = <<>>
    /\ db_approaches = <<>>
    /\ db_error = ""
    /\ qry_pc = "idle"
    /\ qry_filters = <<>>
    /\ qry_pos = 0
    /\ qry_out = <<>>

\* database = NEODatabase(neos, approaches)
Associate ==
    /\ db_pc = "loaded"
    /\ LET db == NEODatabase(db_neos, db_approaches)
       IN  /\ db_neos' = db.neos
           /\ db_approaches' = db.approaches
           /\ db_error' = db.exc
           /\ db_pc' = IF db.exc = "" THEN "built" ELSE "raised"
    /\ UNCHANGED <<qry_pc, qry_filters, qry_pos, qry_out>>
    /\ UNCHANGED exceptDb

\* filters = create_filters(**args), once the database stands
CreateQueryFilters ==
    /\ db_pc = "built"
    /\ CreateFiltersFrom(ArgSetsOver(QueryKeys))

\* results = database.query(filters)
QueryCall ==
    /\ db_pc = "built"
    /\ flt_filters # Nothing
    /\ qry_pc = "idle"
    /\ qry_filters' = flt_filters[1]
    /\ qry_pc' = "created"
    /\ UNCHANGED <<qry_pos, qry_out>>
    /\ UNCHANGED <<db_pc, db_neos, db_approaches, db_error>>
    /\ UNCHANGED exceptDb

\* next(results): the scan goes on to the next approach every filter accepts
\* and yields it, or reaches the end of the approaches.
QueryNext ==
    /\ qry_pc \in {"created", "yielded"}
    /\ LET later == {j \in (qry_pos + 1)..Len(db_approaches) :
                        Matches(qry_filters, Resolve(db_approaches[j]))}
       IN  IF later = {}
           THEN /\ qry_pos' = Len(db_approaches)
                /\ qry_pc' = "done"
                /\ UNCHANGED qry_out
           ELSE LET j == CHOOSE m \in later : \A n \in later : m <= n
                IN  /\ qry_pos' = j
                    /\ qry_out' = Append(qry_out, ApproachRef(j))
                    /\ qry_pc' = "yielded"
    /\ UNCHANGED qry_filters
    /\ UNCHANGED <<db_pc, db_neos, db_approaches, db_error>>
    /\ UNCHANGED exceptDb

\* The approaches of the database that satisfy every specified criterion.
C6_Matching ==
    {j \in 1..Len(db_approaches) :
        \A k \in Keys : flt_args[k] # NoneV =>
            C4_Holds(k, C4_Extract(k, Resolve(db_approaches[j])), flt_args[k])}

\* C6: query yields the approaches for which every filter holds, each once
\* and in load order: the i-th item yielded is the i-th matching approach,
\* and the finished query has yielded all of them.
C6_QueryYieldsMatchesInOrder ==
    qry_pc # "idle" =>
        /\ \A i \in 1..Len(qry_out) :
              /\ qry_out[i].v \in C6_Matching
              /\ Cardinality({m \in C6_Matching : m < qry_out[i].v}) = i - 1
        /\ qry_pc = "done" => Len(qry_out) = Cardinality(C6_Matching)

C6_Witness ==
    /\ qry_pc = "done"
    /\ Len(qry_filters) = 2
    /\ Len(db_approaches) = 3
    /\ qry_out = <<ApproachRef(1), ApproachRef(3)>>

\* The approaches of the database whose NEO has an unknown diameter.
C13_UnknownDiameter ==
    {j \in 1..Len(db_approaches) : Resolve(db_approaches[j]).neo.diameter = NaN}

\* C13: in a query that specifies diameter_min or diameter_max, each
\* diameter filter rejects every approach whose NEO's diameter is unknown,
\* and the query yields none of those approaches.
C13_UnknownDiameterExcluded ==
    (qry_pc # "idle" /\ (flt_args["diameter_min"] # NoneV \/ flt_args["diameter_max"] # NoneV)) =>
        /\ \A i \in 1..Len(qry_filters) : \A j \in C13_UnknownDiameter :
              qry_filters[i].cls = "DiamFilter" =>
                  ~AttributeFilter_call(qry_filters[i], Resolve(db_approaches[j]))
        /\ \A p \in 1..Len(qry_out) : qry_out[p].v \notin C13_UnknownDiameter

C13_Witness ==
    /\ qry_pc = "done"
    /\ flt_args["diameter_max"] = FloatV(1)
    /\ Len(qry_filters) = 1
    /\ Len(db_approaches) = 3
    /\ C13_UnknownDiameter = {2}
    /\ qry_out = <<ApproachRef(1), ApproachRef(3)>>

\* C7: once the database has been constructed from the loaded NEOs and
\* approaches, every approach refers to an NEO of its own designation, and
\* every NEO's approaches are exactly the approaches referring to it, in
\* load order.
C7_LinkageInvariant ==
    db_pc \in {"built", "raised"} =>
        /\ \A j \in 1..Len(db_approaches) :
              /\ db_approaches[j].neo # NoneV
              /\ db_neos[db_approaches[j].neo.v].designation
                    = db_approaches[j].designation
        /\ \A i \in 1..Len(db_neos) :
              LET mine == {j \in 1..Len(db_approaches) :
                              db_approaches[j].neo = NeoRef(i)}
                  list == db_neos[i].approaches
              IN  /\ Len(list) = Cardinality(mine)
                  /\ \A p \in 1..Len(list) :
                        /\ list[p].v \in mine
                        /\ Cardinality({m \in mine : m < list[p].v}) = p - 1

\* ---------------------------------------------------------------------
\* write.py: write_to_csv
\* ---------------------------------------------------------------------
RECURSIVE DecText(_)
\* The decimal digits of a natural number.
DecText(n) ==
    IF n < 10 THEN <<Digits[n + 1]>>
    ELSE DecText(n \div 10) \o <<Digits[(n % 10) + 1]>>

TwoDigits(n) == IF n < 10 THEN <<"0">> \o DecText(n) ELSE DecText(n)

\* datetime_to_str: day, then 'HH:MM'; no seconds.
datetime_to_str(time) ==
    StrV(DecText(date(time)) \o <<" ">>
         \o TwoDigits((time % MinutesPerDay) \div 60) \o <<":">>
         \o TwoDigits(time % 60))

\* The text the csv writer puts in a cell: None is the empty text, a text is
\* itself, anything else is its str().
CsvCell(value) ==
    CASE value.t = "NoneType" -> <<>>
      [] value.t = "str" -> value.s
      [] value.t = "nan" -> <<"n", "a", "n">>
      [] value.t = "inf" -> IF value.v < 0 THEN <<"-", "i", "n", "f">>
                            ELSE <<"i", "n", "f">>
      [] value.t = "bool" -> IF value.v = 1 THEN <<"T", "r", "u", "e">>
                             ELSE <<"F", "a", "l", "s", "e">>
      [] OTHER -> (IF value.v < 0 THEN <<"-">> \o DecText(-value.v)
                   ELSE DecText(value.v)) \o <<".", "0">>

\* CloseApproach.serialize
CloseApproach_serialize(approach) ==
    [datetime_utc |-> datetime_to_str(approach.time),
     distance_au |-> approach.distance,
     velocity_km_s |-> approach.velocity]

fieldnames_NameFirst ==
    <<"datetime_utc", "distance_au", "velocity_km_s", "name", "designation",
      "diameter_km", "potentially_hazardous">>

fieldnames ==
    <<"datetime_utc", "distance_au", "velocity_km_s", "designation", "name",
      "diameter_km", "potentially_hazardous">>

\* The dictionary write_to_csv hands to the writer for one approach:
\* {**approach_data, **neo_data} with name and potentially_hazardous reset.
RowContent(line) ==
    LET approach_data == CloseApproach_serialize(line)
        neo_data == NearEarthObject_serialize(line.neo)
    IN  [datetime_utc |-> approach_data.datetime_utc,
         distance_au |-> approach_data.distance_au,
         velocity_km_s |-> approach_data.velocity_km_s,
         designation |-> neo_data.designation,
         name |-> neo_data.name,
         diameter_km |-> neo_data.diameter_km,
         potentially_hazardous |->
             IF truth(neo_data.potentially_hazardous)
             THEN StrV(<<"T", "r", "u", "e">>)
             ELSE StrV(<<"F", "a", "l", "s", "e">>)]

\* csv.DictWriter.writerow: the cells of the dictionary in fieldnames order.
writerow(content) == [i \in 1..Len(fieldnames) |-> CsvCell(content[fieldnames[i]])]

\* The NEOs and linked approaches a result stream can hold.
WrittenNEOs ==
    {NearEarthObject([name |-> n, designation |-> Designation433,
                      diameter |-> d, hazardous |-> h]).val :
        n \in {NoneV, StrV(<<>>), StrV(<<"E">>)},
        d \in {StrV(<<"1">>), StrV(<<>>)},
        h \in {BoolV(TRUE), BoolV(FALSE)}}

WrittenApproaches ==
    {[CloseApproach([designation |-> Designation433,
                     time |-> [day |-> 1, hour |-> h, minute |-> 45],
                     distance |-> FloatV(1), velocity |-> FloatV(1),
                     neo |-> NoneV]).val EXCEPT !.neo = n] :
        h \in {9, 13}, n \in WrittenNEOs}

WriteInit ==
    /\ wr_data \in SeqsUpTo(WrittenApproaches, MaxResults)
    /\ wr_pc = "called"
    /\ wr_pos = 0
    /\ wr_rows = <<>>

WriteIdle ==
    /\ wr_data = <<>>
    /\ wr_pc = "closed"
    /\ wr_pos = 0
    /\ wr_rows = <<>>

\* write_to_csv: the file is opened and the header written
WriteHeader ==
    /\ wr_pc = "called"
    /\ wr_rows' = <<fieldnames>>
    /\ wr_pc' = "rows"
    /\ UNCHANGED <<wr_data, wr_pos>>
    /\ UNCHANGED exceptWr

\* write_to_csv: one iteration of `for line in ca_data`
WriteRow ==
    /\ wr_pc = "rows" /\ wr_pos < Len(wr_data)
    /\ wr_rows' = Append(wr_rows, writerow(RowContent(wr_data[wr_pos + 1])))
    /\ wr_pos' = wr_pos + 1
    /\ UNCHANGED <<wr_data, wr_pc>>
    /\ UNCHANGED exceptWr

\* write_to_csv: the stream is exhausted and the file closed
WriteClose ==
    /\ wr_pc = "rows" /\ wr_pos = Len(wr_data)
    /\ wr_pc' = "closed"
    /\ UNCHANGED <<wr_data, wr_pos, wr_rows>>
    /\ UNCHANGED exceptWr

\* C12: the header is the seven column names in order, and the row of each
\* approach has seven cells: date-time, distance, velocity, designation,
\* name (empty when the NEO has no name), diameter (the not-a-number marker
\* when unknown) and "True" or "False" as the NEO's hazardous flag is.
C12_CsvRowColumns ==
    wr_rows # <<>> =>
        /\ wr_rows[1] = <<"datetime_utc", "distance_au", "velocity_km_s",
                          "designation", "name", "diameter_km",
                          "potentially_hazardous">>
        /\ \A i \in 1..(Len(wr_rows) - 1) :
              LET row == wr_rows[i + 1]
                  a == wr_data[i]
              IN  /\ Len(row) = 7
                  /\ row[1] = datetime_to_str(a.time).s
                  /\ row[2] = CsvCell(a.distance)
                  /\ row[3] = CsvCell(a.velocity)
                  /\ row[4] = a.designation.s
                  /\ a.neo.name = NoneV => row[5] = <<>>
                  /\ a.neo.name # NoneV => row[5] = a.neo.name.s
                  /\ a.neo.diameter = NaN => row[6] = <<"n", "a", "n">>
                  /\ a.neo.hazardous = BoolV(TRUE) => row[7] = <<"T", "r", "u", "e">>
                  /\ a.neo.hazardous = BoolV(FALSE) => row[7] = <<"F", "a", "l", "s", "e">>

C12_Witness ==
    /\ wr_pc = "closed"
    /\ Len(wr_rows) = 3
    /\ wr_data[1].neo.name = NoneV
    /\ wr_data[1].neo.diameter = NaN
    /\ wr_data[1].neo.hazardous = BoolV(TRUE)
    /\ wr_rows[2][5] = <<>>
    /\ wr_rows[2][6] = <<"n", "a", "n">>
    /\ wr_rows[2][7] = <<"T", "r", "u", "e">>
    /\ wr_data[2].neo.name # NoneV

\* ---------------------------------------------------------------------
\* Specifications
\* ---------------------------------------------------------------------
InitLimit == LimitInit /\ FilterIdle /\ ModelsIdle /\ LoadIdle /\ DatabaseIdle /\ WriteIdle

NextLimit == LimitNext

SpecLimit == InitLimit /\ [][NextLimit]_vars

InitFilter == FilterInit /\ LimitIdle /\ ModelsIdle /\ LoadIdle /\ DatabaseIdle /\ WriteIdle

NextFilter == CreateFilters \/ CallFilter

SpecFilter == InitFilter /\ [][NextFilter]_vars

InitModels == ModelsInit /\ LimitIdle /\ FilterIdle /\ LoadIdle /\ DatabaseIdle /\ WriteIdle

NextModels == ConstructNEO \/ ConstructCA

SpecModels == InitModels /\ [][NextModels]_vars

InitLoad == LoadInit /\ LimitIdle /\ FilterIdle /\ ModelsIdle /\ DatabaseIdle /\ WriteIdle

NextLoad ==
    \/ LoadNeosOpen \/ LoadNeosRow \/ LoadNeosReturn
    \/ LoadApproachesOpen \/ LoadApproachesRow \/ LoadApproachesReturn

SpecLoad == InitLoad /\ [][NextLoad]_vars

InitDatabase == DatabaseInit /\ LimitIdle /\ FilterIdle /\ ModelsIdle /\ LoadIdle /\ WriteIdle

NextDatabase == Associate \/ CreateQueryFilters \/ QueryCall \/ QueryNext

SpecDatabase == InitDatabase /\ [][NextDatabase]_vars

InitWrite ==
    WriteInit /\ LimitIdle /\ FilterIdle /\ ModelsIdle /\ LoadIdle /\ DatabaseIdle

NextWrite == WriteHeader \/ WriteRow \/ WriteClose

SpecWrite == InitWrite /\ [][NextWrite]_vars

====
